---- MODULE Spec2Model ----
(***************************************************************************)
(* libnabo, nabo/kdtree_opencl.cpp: the OpenCL search back-end.            *)
(*                                                                         *)
(* The module holds these state machines over one set of variables:        *)
(*   SpecBuild    the construction of the flat kd-tree array of the two    *)
(*                balanced variants (getTreeSize, getTreeDepth, buildNodes)*)
(*   SpecSearch   a sequence of index constructions (createContext,        *)
(*                initOpenCL, the binding of the node buffer) on the       *)
(*                process-wide ContextManager                              *)
(*   SpecKnn      knn calls on one constructed index                       *)
(*   SpecRegistry direct calls of ContextManager::createContext and        *)
(*                ContextManager::getSourceCacher, in any order            *)
(*   SpecThreads  two threads constructing an index concurrently, one step *)
(*                per statement that touches the registry or a cache       *)
(***************************************************************************)
EXTENDS Integers, Sequences, FiniteSets

VARIABLES
    \* ---- tree construction (one index instance being built)
    variant,        \* "leaves" | "nodes" | "none"
    cloud,          \* the point cloud: 0..n-1 -> (Axes -> coordinate)
    buildPoints,    \* the BuildPoints vector: 0..n-1 -> original point index
    nodes,          \* the node array: 0..size-1 -> [dim, val]
    stack,          \* the pending buildNodes calls, innermost first
    written,        \* every array position a buildNodes call has stored to
    call,           \* the arguments and locals of the latest buildNodes call
    phase,          \* "building" | "built" | "idle"
    maxStackDepth,  \* the constant handed to the kernel source (0 until built)
    extent,         \* the vector a direct call of argMax is made with
    maxIdx,         \* what that call returned (-1 until it has)
    \* ---- the process-wide ContextManager and the index instances
    devices,        \* ContextManager::devices: device type -> SourceCacher
    instances,      \* the index objects whose constructor has returned
    attempts,       \* number of constructor calls made so far
    buildCount,     \* number of program.build(devices) calls made so far
    requested,      \* the (device type, full source text) pairs initOpenCL was asked a program for
    lastInit,       \* outcome of the latest constructor call
    lastKnn,        \* the latest knn call: its inputs, outcome and the calls it made
    created,        \* the device type of every SourceCacher put into devices, oldest first
    lastCall,       \* the latest direct call of createContext / getSourceCacher
    \* ---- threads constructing an index concurrently
    threads,        \* thread -> [pc, deviceType, source, sources, kernelName, hit]
    mutex,          \* ContextManager::mutex: 0 when free, else the thread holding it
    race            \* some access to a std::map overlapped an insertion into it

buildVars ==
    <<variant, cloud, buildPoints, nodes, stack, written, call, phase, maxStackDepth, extent, maxIdx>>

searchVars ==
    <<devices, instances, attempts, buildCount, requested, lastInit, lastKnn, created, lastCall>>

threadVars == <<threads, mutex, race>>

vars == <<buildVars, searchVars, threadVars>>

(***************************************************************************)
(* Bounds of the model                                                     *)
(***************************************************************************)
\* largest point count of the clouds drawn from the coordinate grid
MaxN == 4
\* largest coordinate of a grid point
MaxCoord == 1
\* largest point count of the clouds whose points lie on a line
MaxLineN == 8

\* the coordinate axes of a point (dim = 2)
Axes == {0, 1}

(***************************************************************************)
(* Helpers                                                                 *)
(***************************************************************************)
Max2(a, b) == IF a >= b THEN a ELSE b

SetMax(S) == CHOOSE x \in S : \A y \in S : y <= x

SetMin(S) == CHOOSE x \in S : \A y \in S : x <= y

\* first index of the bit scans of getTreeSize / getTreeDepth
ScanStart == 31

\* elCount & (1 << i). 1 << 31 does not fit an int; for the element counts of
\* this model (far below 2^31) the test at i = 31 is false on every build.
BitSet(x, i) == IF i >= 31 THEN FALSE ELSE (x \div (2 ^ i)) % 2 = 1

RECURSIVE HighBit(_, _)
\* for (i = 31; i >= 0; --i) if (elCount & (1 << i)) break;   (-1: no bit set)
HighBit(x, i) ==
    IF i < 0 THEN -1
    ELSE IF BitSet(x, i) THEN i
    ELSE HighBit(x, i - 1)

RECURSIVE OrBits(_)
\* for (j = 0; j <= i; ++j) count |= (1 << j);
OrBits(i) == IF i < 0 THEN 0 ELSE 2 ^ i + OrBits(i - 1)

childLeft(pos) == 2 * pos + 1

childRight(pos) == 2 * pos + 2

(***************************************************************************)
(* Tree sizing, points-in-leaves variant                                   *)
(***************************************************************************)
\* getTreeSize without its last two statements (count <<= 1; count |= 1)
LeavesGetTreeSizeNoShift(elCount) == OrBits(HighBit(elCount - 1, ScanStart))

\* elCount--; scan for the highest set bit i; count = bits 0..i; count <<= 1; count |= 1
LeavesGetTreeSize(elCount) == 2 * OrBits(HighBit(elCount - 1, ScanStart)) + 1

\* if (elCount <= 1) return 0; elCount--; scan; return i + 1
LeavesGetTreeDepth(elCount) ==
    IF elCount <= 1 THEN 0 ELSE HighBit(elCount - 1, ScanStart) + 1

\* rightCount rounded up instead of down
LeavesRightCountCeil(count) == (count + 1) \div 2

\* const size_t rightCount(count/2)
LeavesRightCount(count) == count \div 2

\* const size_t leftCount(count - rightCount)
LeavesLeftCount(count) == count - LeavesRightCount(count)

\* const int d = -2 - (first->index), with the offset one too small
LeafTagOffByOne(index) == -1 - index

\* const int d = -2 - (first->index)
LeafTag(index) == -2 - index

(***************************************************************************)
(* Tree sizing, points-in-nodes variant                                    *)
(***************************************************************************)
\* getTreeSize scanning elCount - 1, as the points-in-leaves variant does
NodesGetTreeSizeOfPrev(elCount) == OrBits(HighBit(elCount - 1, ScanStart))

\* scan elCount for the highest set bit i; count = bits 0..i
NodesGetTreeSize(elCount) == OrBits(HighBit(elCount, ScanStart))

\* getTreeDepth scanning elCount - 1, as the points-in-leaves variant does
NodesGetTreeDepthOfPrev(elCount) ==
    IF elCount <= 1 THEN 0 ELSE HighBit(elCount - 1, ScanStart) + 1

\* scan elCount for the highest set bit i; return i + 1
NodesGetTreeDepth(elCount) == HighBit(elCount, ScanStart) + 1

\* rightCount rounded up instead of down
NodesRightCountCeil(count) == count \div 2

\* const size_t recurseCount(count-1); const size_t rightCount(recurseCount/2)
NodesRightCount(count) == (count - 1) \div 2

\* const size_t leftCount(recurseCount-rightCount)
NodesLeftCount(count) == (count - 1) - NodesRightCount(count)

\* the right recursion starting at the kept point instead of after it
NodesRightFirstKeepsPoint(first, leftCount) == first + leftCount

\* buildNodes(first + leftCount + 1, last, childRight(pos), ...)
NodesRightFirst(first, leftCount) == first + leftCount + 1

getTreeSize(v, n) == IF v = "leaves" THEN LeavesGetTreeSize(n) ELSE NodesGetTreeSize(n)

getTreeDepth(v, n) == IF v = "leaves" THEN LeavesGetTreeDepth(n) ELSE NodesGetTreeDepth(n)

\* maxStackDepth with one taken off the tree depth instead of added
StackDepthOfSizeMinusOne(v, size) == getTreeDepth(v, size) - 1

\* const unsigned maxStackDepth(getTreeDepth(nodes.size()) + 1)
StackDepthOfSize(v, size) == getTreeDepth(v, size) + 1

(***************************************************************************)
(* argMax, CompareDim, nth_element                                         *)
(***************************************************************************)
RECURSIVE ArgMaxLoopLastWins(_, _, _, _)
\* the loop of argMax with (v[i] >= maxVal) as its test
ArgMaxLoopLastWins(v, i, maxVal, maxIdx0) ==
    IF i \notin DOMAIN v THEN maxIdx0
    ELSE IF v[i] >= maxVal THEN ArgMaxLoopLastWins(v, i + 1, v[i], i)
    ELSE ArgMaxLoopLastWins(v, i + 1, maxVal, maxIdx0)

RECURSIVE ArgMaxLoop(_, _, _, _)
\* the loop of argMax: i runs over the axes, (maxVal, maxIdx) is the running best
ArgMaxLoop(v, i, maxVal, maxIdx0) ==
    IF i \notin DOMAIN v THEN maxIdx0
    ELSE IF v[i] > maxVal THEN ArgMaxLoop(v, i + 1, v[i], i)
    ELSE ArgMaxLoop(v, i + 1, maxVal, maxIdx0)

argMax(v) == ArgMaxLoop(v, 0, 0, 0)

\* CompareDim(dim)(p0, p1): strict order of two point indices along one axis
CompareDim(c, dim, p0, p1) == c[p0][dim] < c[p1][dim]

RECURSIVE PermSeqs(_)
\* every ordering of the elements of S, as a sequence
PermSeqs(S) ==
    IF S = {} THEN {<<>>}
    ELSE UNION {{<<x>> \o p : p \in PermSeqs(S \ {x})} : x \in S}

\* a rearrangement of the range that partitions nothing: any order at all
NthElementAnyOrder(c, bp, first, nth, last, dim) ==
    {[i \in DOMAIN bp |-> IF i \in first .. last - 1 THEN o[i - first + 1] ELSE bp[i]] :
        o \in PermSeqs({bp[i] : i \in first .. last - 1})}

\* std::nth_element(first, nth, last, comp) with first <= nth < last: every
\* rearrangement of the range in which the element at nth is the one a full
\* sort would put there: no element at or after nth compares less than one
\* before nth, and none after nth compares less than the one at nth.  The
\* order inside the two parts is left open, as the standard leaves it.
NthElement(c, bp, first, nth, last, dim) ==
    LET S == {bp[i] : i \in first .. last - 1}
        Lefts == {L \in SUBSET S :
                    /\ Cardinality(L) = nth - first
                    /\ \A l \in L : \A r \in S \ L : ~CompareDim(c, dim, r, l)}
        Orders == UNION {{lp \o rp : lp \in PermSeqs(L),
                                     rp \in {q \in PermSeqs(S \ L) :
                                               \A r \in S \ L : ~CompareDim(c, dim, r, q[1])}} :
                         L \in Lefts}
    IN  {[i \in DOMAIN bp |-> IF i \in first .. last - 1 THEN o[i - first + 1] ELSE bp[i]] :
            o \in Orders}

(***************************************************************************)
(* Bounding box of the cloud (the fold of the constructors)                *)
(***************************************************************************)
minBound(c) == [d \in Axes |-> SetMin({c[i][d] : i \in DOMAIN c})]

maxBound(c) == [d \in Axes |-> SetMax({c[i][d] : i \in DOMAIN c})]

(***************************************************************************)
(* The node array                                                          *)
(***************************************************************************)
\* Node(): the slot nobody stored to. Leaves variant: dim = -1 (invalid);
\* nodes variant: dim = -2 (invalid), index 0.
DefaultNode(v) == IF v = "leaves" THEN [dim |-> -1, val |-> 0] ELSE [dim |-> -2, val |-> 0]

\* nodes[pos] = node.  A store past the end of the vector is undefined
\* behaviour; it is recorded in `written` and the vector is left alone.
Store(ns, pos, node) == IF pos \in DOMAIN ns THEN [ns EXCEPT ![pos] = node] ELSE ns

Frame(first, last, pos, minValues, maxValues) ==
    [first |-> first, last |-> last, pos |-> pos,
     minValues |-> minValues, maxValues |-> maxValues]

NoCall == [pos |-> -1]

(***************************************************************************)
(* The clouds an index is built over                                       *)
(***************************************************************************)
GridPoints == [Axes -> 0 .. MaxCoord]

\* lexicographic order of two points
LexLeq(p, q) == p[0] < q[0] \/ (p[0] = q[0] /\ p[1] <= q[1])

\* clouds of 1..MaxN grid points; the columns are taken in lexicographic order
\* (every other cloud over the grid is one of these with its columns renumbered)
GridClouds ==
    UNION {{c \in [0 .. n - 1 -> GridPoints] :
              \A i \in 0 .. n - 2 : LexLeq(c[i], c[i + 1])} : n \in 1 .. MaxN}

\* clouds of 1..MaxLineN distinct points on a line along axis 1
LineClouds == {[i \in 0 .. n - 1 |-> [d \in Axes |-> IF d = 1 THEN i ELSE 0]] : n \in 1 .. MaxLineN}

Clouds == GridClouds \cup LineClouds

\* the empty function (a std::map with no entry, a vector of size 0)
Empty == [x \in {} |-> 0]

NoKnn == [result |-> "none"]

NoRegistryCall == [op |-> "none"]

\* the registry and instance variables when only a tree is being built
SearchIdle ==
    /\ devices = Empty
    /\ instances = <<>>
    /\ attempts = 0
    /\ buildCount = 0
    /\ requested = {}
    /\ lastInit = "none"
    /\ lastKnn = NoKnn
    /\ created = <<>>
    /\ lastCall = NoRegistryCall

\* the thread variables of a single-threaded run
ThreadsIdle ==
    /\ threads = Empty
    /\ mutex = 0
    /\ race = FALSE

\* the tree-construction variables when no tree is being built step by step
BuildIdle ==
    /\ variant = "none"
    /\ cloud = Empty
    /\ buildPoints = Empty
    /\ nodes = Empty
    /\ stack = <<>>
    /\ written = {}
    /\ call = NoCall
    /\ phase = "idle"
    /\ maxStackDepth = 0
    /\ extent = Empty
    /\ maxIdx = -1

(***************************************************************************)
(* SpecBuild: the constructors up to the end of buildNodes                 *)
(***************************************************************************)
\* the state a constructor is in when it makes the root call of buildNodes:
\* buildPoints holds 0..n-1 in order, nodes has getTreeSize(n) default slots
InitBuild ==
    /\ variant \in {"leaves", "nodes"}
    /\ cloud \in Clouds
    /\ buildPoints = [i \in DOMAIN cloud |-> i]
    /\ nodes = [p \in 0 .. getTreeSize(variant, Cardinality(DOMAIN cloud)) - 1 |-> DefaultNode(variant)]
    /\ stack = <<Frame(0, Cardinality(DOMAIN cloud), 0, minBound(cloud), maxBound(cloud))>>
    /\ written = {}
    /\ call = NoCall
    /\ phase = "building"
    /\ maxStackDepth = 0
    /\ extent = Empty
    /\ maxIdx = -1
    /\ SearchIdle
    /\ ThreadsIdle

\* one call of KDTreeBalancedPtInLeavesStackOpenCL<T>::buildNodes; its two
\* recursive calls become the next pending calls, left first
LeavesBuildNodes ==
    /\ phase = "building" /\ variant = "leaves" /\ stack # <<>>
    /\ LET fr == Head(stack)
           count == fr.last - fr.first
       IN  IF count = 1
           THEN /\ nodes' = Store(nodes, fr.pos, [dim |-> LeafTag(buildPoints[fr.first]), val |-> 0])
                /\ written' = written \cup {fr.pos}
                /\ stack' = Tail(stack)
                /\ call' = [pos |-> fr.pos, first |-> fr.first, last |-> fr.last, count |-> count,
                            minValues |-> fr.minValues, maxValues |-> fr.maxValues,
                            cutDim |-> -1, cutVal |-> 0, leftCount |-> 0, rightCount |-> 0]
                /\ UNCHANGED buildPoints
           ELSE LET cutDim == argMax([d \in Axes |-> fr.maxValues[d] - fr.minValues[d]])
                    rightCount == LeavesRightCount(count)
                    leftCount == LeavesLeftCount(count)
                IN  \E bp \in NthElement(cloud, buildPoints, fr.first, fr.first + leftCount, fr.last, cutDim) :
                      LET cutVal == cloud[bp[fr.first + leftCount]][cutDim]
                          leftMaxValues == [fr.maxValues EXCEPT ![cutDim] = cutVal]
                          rightMinValues == [fr.minValues EXCEPT ![cutDim] = cutVal]
                      IN  /\ buildPoints' = bp
                          /\ nodes' = Store(nodes, fr.pos, [dim |-> cutDim, val |-> cutVal])
                          /\ written' = written \cup {fr.pos}
                          /\ stack' = <<Frame(fr.first, fr.first + leftCount, childLeft(fr.pos),
                                              fr.minValues, leftMaxValues),
                                        Frame(fr.first + leftCount, fr.last, childRight(fr.pos),
                                              rightMinValues, fr.maxValues)>> \o Tail(stack)
                          /\ call' = [pos |-> fr.pos, first |-> fr.first, last |-> fr.last, count |-> count,
                                      minValues |-> fr.minValues, maxValues |-> fr.maxValues,
                                      cutDim |-> cutDim, cutVal |-> cutVal,
                                      leftCount |-> leftCount, rightCount |-> rightCount]
    /\ UNCHANGED <<variant, cloud, phase, maxStackDepth, extent, maxIdx, searchVars, threadVars>>

\* one call of KDTreeBalancedPtInNodesStackOpenCL<T>::buildNodes
NodesBuildNodes ==
    /\ phase = "building" /\ variant = "nodes" /\ stack # <<>>
    /\ LET fr == Head(stack)
           count == fr.last - fr.first
       IN  IF count = 1
           THEN /\ nodes' = Store(nodes, fr.pos, [dim |-> -1, val |-> buildPoints[fr.first]])
                /\ written' = written \cup {fr.pos}
                /\ stack' = Tail(stack)
                /\ call' = [pos |-> fr.pos, first |-> fr.first, last |-> fr.last, count |-> count,
                            minValues |-> fr.minValues, maxValues |-> fr.maxValues,
                            cutDim |-> -1, cutVal |-> 0, leftCount |-> 0, rightCount |-> 0]
                /\ UNCHANGED buildPoints
           ELSE LET cutDim == argMax([d \in Axes |-> fr.maxValues[d] - fr.minValues[d]])
                    rightCount == NodesRightCount(count)
                    leftCount == NodesLeftCount(count)
                IN  \E bp \in NthElement(cloud, buildPoints, fr.first, fr.first + leftCount, fr.last, cutDim) :
                      LET index == bp[fr.first + leftCount]
                          cutVal == cloud[index][cutDim]
                          leftMaxValues == [fr.maxValues EXCEPT ![cutDim] = cutVal]
                          rightMinValues == [fr.minValues EXCEPT ![cutDim] = cutVal]
                      IN  /\ buildPoints' = bp
                          /\ call' = [pos |-> fr.pos, first |-> fr.first, last |-> fr.last, count |-> count,
                                      minValues |-> fr.minValues, maxValues |-> fr.maxValues,
                                      cutDim |-> cutDim, cutVal |-> cutVal,
                                      leftCount |-> leftCount, rightCount |-> rightCount]
                          /\ IF count > 2
                             THEN /\ nodes' = Store(nodes, fr.pos, [dim |-> cutDim, val |-> index])
                                  /\ written' = written \cup {fr.pos}
                                  /\ stack' = <<Frame(fr.first, fr.first + leftCount, childLeft(fr.pos),
                                                      fr.minValues, leftMaxValues),
                                                Frame(NodesRightFirst(fr.first, leftCount), fr.last, childRight(fr.pos),
                                                      rightMinValues, fr.maxValues)>> \o Tail(stack)
                             ELSE /\ nodes' = Store(Store(Store(nodes, fr.pos, [dim |-> cutDim, val |-> index]),
                                                          childLeft(fr.pos), [dim |-> -1, val |-> bp[fr.first]]),
                                                    childRight(fr.pos), [dim |-> -2, val |-> 0])
                                  /\ written' = written \cup {fr.pos, childLeft(fr.pos), childRight(fr.pos)}
                                  /\ stack' = Tail(stack)
    /\ UNCHANGED <<variant, cloud, phase, maxStackDepth, extent, maxIdx, searchVars, threadVars>>

\* the root call has returned: const unsigned maxStackDepth(getTreeDepth(nodes.size()) + 1)
FinishBuild ==
    /\ phase = "building" /\ stack = <<>>
    /\ phase' = "built"
    /\ maxStackDepth' = StackDepthOfSize(variant, Cardinality(DOMAIN nodes))
    /\ UNCHANGED <<variant, cloud, buildPoints, nodes, stack, written, call, extent, maxIdx,
                   searchVars, threadVars>>

NextBuild == LeavesBuildNodes \/ NodesBuildNodes \/ FinishBuild

SpecBuild == InitBuild /\ [][NextBuild]_vars

(***************************************************************************)
(* SpecArgMax: argMax called on a vector of its own                        *)
(***************************************************************************)
\* largest number of components of a vector handed to argMax
MaxDim == 3
\* largest component of such a vector (the smallest is -1)
MaxExtent == 2

\* the vectors argMax is called with
ExtentVectors == UNION {[0 .. d - 1 -> -1 .. MaxExtent] : d \in 1 .. MaxDim}

InitArgMax ==
    /\ variant = "none"
    /\ cloud = Empty
    /\ buildPoints = Empty
    /\ nodes = Empty
    /\ stack = <<>>
    /\ written = {}
    /\ call = NoCall
    /\ phase = "idle"
    /\ maxStackDepth = 0
    /\ extent \in ExtentVectors
    /\ maxIdx = -1
    /\ SearchIdle
    /\ ThreadsIdle

\* argMax<T>(v)
ArgMaxCall ==
    /\ maxIdx = -1
    /\ maxIdx' = argMax(extent)
    /\ UNCHANGED <<variant, cloud, buildPoints, nodes, stack, written, call, phase, maxStackDepth,
                   extent, searchVars, threadVars>>

NextArgMax == ArgMaxCall

SpecArgMax == InitArgMax /\ [][NextArgMax]_vars

(***************************************************************************)
(* ContextManager and SourceCacher                                         *)
(***************************************************************************)
\* #define MAX_K 32
MAX_K == 32

\* the device classes an index can be created for
DeviceTypes == {"CPU", "GPU"}

\* what the OpenCL platform answers while a SourceCacher is constructed:
\* platforms   cl::Platform::get found at least one platform
\* typed       cl::Context(deviceType, properties) succeeds
\* any         cl::Context(CL_DEVICE_TYPE_ALL, properties) succeeds with a device
Platforms ==
    {[platforms |-> FALSE, typed |-> FALSE, any |-> FALSE],
     [platforms |-> TRUE, typed |-> TRUE, any |-> TRUE],
     [platforms |-> TRUE, typed |-> FALSE, any |-> TRUE],
     [platforms |-> TRUE, typed |-> FALSE, any |-> FALSE]}

\* the SourceCacher constructor without the fall-back to CL_DEVICE_TYPE_ALL
NewSourceCacherNoFallback(deviceType, env) ==
    IF ~env.platforms THEN [error |-> "ResourceError"]
    ELSE IF env.typed THEN [error |-> "none", context |-> deviceType, cachedPrograms |-> Empty]
    ELSE [error |-> "ResourceError"]

\* SourceCacher::SourceCacher(deviceType): the new cacher, or the exception
NewSourceCacher(deviceType, env) ==
    IF ~env.platforms THEN [error |-> "ResourceError"]
    ELSE IF env.typed THEN [error |-> "none", context |-> deviceType, cachedPrograms |-> Empty]
    ELSE IF env.any THEN [error |-> "none", context |-> "ALL", cachedPrograms |-> Empty]
    ELSE [error |-> "ResourceError"]

\* new SourceCacher(...): the address of the new object, distinct from the
\* address of every SourceCacher made before (none is deleted before teardown)
FreshPtr(devs) == 1 + SetMax({0} \cup {devs[d].ptr : d \in DOMAIN devs})

\* devices with the entry of deviceType set to a new SourceCacher
WithNewEntry(devs, deviceType, sc) ==
    [d \in DOMAIN devs \cup {deviceType} |->
        IF d = deviceType
        THEN [context |-> sc.context, cachedPrograms |-> sc.cachedPrograms, ptr |-> FreshPtr(devs)]
        ELSE devs[d]]

\* createContext without the devices.find test: a SourceCacher is made and
\* stored on every call
CreateContextAlwaysNew(devs, deviceType, env) ==
    LET sc == NewSourceCacher(deviceType, env)
    IN  IF sc.error # "none" THEN [devices |-> devs, error |-> sc.error]
        ELSE [devices |-> WithNewEntry(devs, deviceType, sc), error |-> "none",
              returned |-> FreshPtr(devs)]

\* createContext storing the entry before the SourceCacher is constructed and
\* leaving it in the map when the constructor throws
CreateContextInsertsFirst(devs, deviceType, env) ==
    IF deviceType \in DOMAIN devs
    THEN [devices |-> devs, error |-> "none", returned |-> devs[deviceType].ptr]
    ELSE LET sc == NewSourceCacher(deviceType, env)
         IN  IF sc.error # "none"
             THEN [devices |-> WithNewEntry(devs, deviceType,
                                            [context |-> "none", cachedPrograms |-> Empty]),
                   error |-> sc.error]
             ELSE [devices |-> WithNewEntry(devs, deviceType, sc), error |-> "none",
                   returned |-> FreshPtr(devs)]

\* ContextManager::createContext(deviceType), the whole locked body: the map
\* afterwards, the context returned (named by the SourceCacher that owns it)
\* or the exception, if the SourceCacher constructor threw one
CreateContext(devs, deviceType, env) ==
    IF deviceType \in DOMAIN devs
    THEN [devices |-> devs, error |-> "none", returned |-> devs[deviceType].ptr]
    ELSE LET sc == NewSourceCacher(deviceType, env)
         IN  IF sc.error # "none" THEN [devices |-> devs, error |-> sc.error]
             ELSE [devices |-> WithNewEntry(devs, deviceType, sc), error |-> "none",
                   returned |-> FreshPtr(devs)]

\* getSourceCacher answering with any entry of the map when the class has none
GetSourceCacherAnyClass(devs, deviceType) ==
    IF DOMAIN devs = {} THEN [error |-> "StateError"]
    ELSE IF deviceType \in DOMAIN devs THEN [error |-> "none", returned |-> devs[deviceType].ptr]
    ELSE [error |-> "none", returned |-> devs[CHOOSE d \in DOMAIN devs : TRUE].ptr]

\* ContextManager::getSourceCacher(deviceType), the whole locked body: the
\* SourceCacher returned, or the runtime_error
GetSourceCacher(devs, deviceType) ==
    IF deviceType \in DOMAIN devs
    THEN [error |-> "none", returned |-> devs[deviceType].ptr]
    ELSE [error |-> "StateError"]

\* the log of SourceCachers put into the map, after a call that turned the
\* map `before` into `after`
CreatedAfter(log, before, after, deviceType) ==
    IF /\ deviceType \in DOMAIN after
       /\ (deviceType \notin DOMAIN before \/ before[deviceType].ptr # after[deviceType].ptr)
    THEN Append(log, deviceType)
    ELSE log

\* SourceCacher::contains(source)
Contains(cachedPrograms, source) == source \in DOMAIN cachedPrograms

\* cachedPrograms[source] = program
CacheInsert(cachedPrograms, source, program) ==
    [k \in DOMAIN cachedPrograms \cup {source} |->
        IF k = source THEN program ELSE cachedPrograms[k]]

(***************************************************************************)
(* OpenCLSearch<T>::initOpenCL  (the float instantiation)                  *)
(***************************************************************************)
\* the kernel file, kernel name of each index variant
ClFileName(v) ==
    CASE v = "bf" -> "knn_bf.cl"
      [] v = "leaves" -> "knn_kdtree_pt_in_leaves.cl"
      [] v = "nodes" -> "knn_kdtree_pt_in_nodes.cl"

KernelName(v) == IF v = "bf" THEN "knnBruteForce" ELSE "knnKDTree"

\* the kernels a kernel file defines
KernelsOfFile(file) == IF file = "knn_bf.cl" THEN {"knnBruteForce"} ELSE {"knnKDTree"}

\* the constructors' maxStackDepth: getTreeDepth(nodes.size()) + 1 with
\* nodes.size() = getTreeSize(cloud.cols())
MaxStackDepthOf(v, n) == StackDepthOfSize(v, getTreeSize(v, n))

\* the additionalDefines argument of initOpenCL
AdditionalDefines(v, n) ==
    IF v = "bf" THEN <<>> ELSE <<"#define MAX_STACK_DEPTH", MaxStackDepthOf(v, n)>>

\* oss.str(): the generated macro header
MacroHeader(dim, stride, collectStatistics, additionalDefines) ==
    [type |-> "typedef float T;", epsilon |-> "FLT_EPSILON", dimCount |-> dim,
     pointStride |-> stride, maxK |-> MAX_K, touchStatistics |-> collectStatistics,
     additional |-> additionalDefines]

\* cl::Program::Sources: the header, then structure.cl, heap.cl and the kernel file
Sources(header, clFileName) == <<header, "structure.cl", "heap.cl", clFileName>>

\* const std::string& source(oss.str()): the key of cachedPrograms
CacheKey(header, clFileName) == header

\* if (error.err() != CL_SUCCESS) throw error;  the cache keeps the program
AfterFailedBuild(cachedPrograms, source) == cachedPrograms

\* initOpenCL on the cache of one SourceCacher.  fileOk: the three source
\* files open; buildOk: program.build succeeds; cloudOk: the cloud is
\* column-major with direct access.
InitOpenCL(cachedPrograms, header, clFileName, kernelName, fileOk, buildOk, cloudOk) ==
    LET source == CacheKey(header, clFileName)
        hit == Contains(cachedPrograms, source)
        built == [sources |-> Sources(header, clFileName),
                  status |-> IF buildOk THEN "built" ELSE "failed"]
        cache1 == IF hit THEN cachedPrograms ELSE CacheInsert(cachedPrograms, source, built)
    IN  IF ~hit /\ ~fileOk
        THEN [cache |-> cachedPrograms, builds |-> 0, error |-> "FileError"]
        ELSE IF ~hit /\ ~buildOk
        THEN [cache |-> AfterFailedBuild(cache1, source), builds |-> 1, error |-> "BuildError"]
        ELSE LET program == cache1[source]
                 builds == IF hit THEN 0 ELSE 1
             IN  IF program.status # "built" \/ kernelName \notin KernelsOfFile(program.sources[4])
                 THEN [cache |-> cache1, builds |-> builds, error |-> "cl::Error"]
                 ELSE IF ~cloudOk
                 THEN [cache |-> cache1, builds |-> builds, error |-> "LayoutError"]
                 ELSE [cache |-> cache1, builds |-> builds, error |-> "none",
                       program |-> program,
                       knnKernel |-> [sources |-> program.sources, name |-> kernelName]]

\* the kernel argument slots
Slots == 0 .. 11

\* slot the points-in-leaves constructor binds nodesCL at
LeavesTreeSlot(collectStatistics) == 10

\* slot the points-in-nodes constructor binds nodesCL at
NodesTreeSlot(collectStatistics) == IF collectStatistics THEN 11 ELSE 10

\* the arguments bound when a constructor returns
ConstructorArgs(v, collectStatistics) ==
    [a \in Slots |->
        IF a = 0 THEN "cloudCL"
        ELSE IF v = "leaves" /\ a = LeavesTreeSlot(collectStatistics) THEN "nodesCL"
        ELSE IF v = "nodes" /\ a = NodesTreeSlot(collectStatistics) THEN "nodesCL"
        ELSE "unset"]

\* a whole constructor call of one of the three index classes: createContext,
\* (the tree sizing,) initOpenCL and the binding of the node buffer.
\* The result: the registry afterwards, the exception or the new instance.
Construct(devs, v, n, stride, collectStatistics, deviceType, env, fileOk, buildOk, cloudOk) ==
    LET cc == CreateContext(devs, deviceType, env)
    IN  IF cc.error # "none"
        THEN [devices |-> cc.devices, builds |-> 0, requested |-> {}, error |-> cc.error]
        ELSE LET sourceCacher == cc.devices[deviceType]
                 header == MacroHeader(Cardinality(Axes), stride, collectStatistics,
                                       AdditionalDefines(v, n))
                 io == InitOpenCL(sourceCacher.cachedPrograms, header, ClFileName(v),
                                  KernelName(v), fileOk, buildOk, cloudOk)
                 devs1 == [cc.devices EXCEPT ![deviceType].cachedPrograms = io.cache]
                 asked == IF io.error = "FileError" THEN {}
                          ELSE {<<deviceType, Sources(header, ClFileName(v))>>}
             IN  IF io.error # "none"
                 THEN [devices |-> devs1, builds |-> io.builds, requested |-> asked, error |-> io.error]
                 ELSE [devices |-> devs1, builds |-> io.builds, requested |-> asked, error |-> "none",
                       instance |-> [variant |-> v, cols |-> n, stride |-> stride,
                                     collectStatistics |-> collectStatistics,
                                     deviceType |-> deviceType,
                                     sources |-> Sources(header, ClFileName(v)),
                                     program |-> io.program,
                                     knnKernel |-> io.knnKernel,
                                     compiled |-> io.builds = 1,
                                     args |-> ConstructorArgs(v, collectStatistics),
                                     dispatched |-> FALSE]]

(***************************************************************************)
(* OpenCLSearch<T>::knn                                                    *)
(***************************************************************************)
\* if (k > MAX_K) with the bound one too high
KTooLargeOffByOne(k) == k > MAX_K + 1

\* if (k > MAX_K)
KTooLarge(k) == k > MAX_K

\* checkSizesKnn(query, indices, dists2, k): accepts the call when the output
\* buffers have the shape (k, query count)
CheckSizesKnn(in) == in.sizesOk

\* knnKernel.setArg(slot, what)
SetArg(args, slot, what) == [args EXCEPT ![slot] = what]

\* the calls knn makes from its first setArg to its return; st = collectStatistics
ArgCalls12 == <<"setArg1", "setArg2">>

ArgCalls3to9 == <<"setArg3", "setArg4", "setArg5", "setArg6", "setArg7", "setArg8", "setArg9">>

\* lines 354-370 without queue.finish()
ExecuteCallsNoFinish(st) ==
    <<"enqueueNDRangeKernel", "enqueueMapBuffer indicesCL", "enqueueMapBuffer dists2CL">>
    \o (IF st THEN <<"enqueueMapBuffer visitCountCL">> ELSE <<>>)
    \o (IF st THEN <<"sum visitCounts">> ELSE <<>>)
    \o <<"return">>

\* lines 354-370: the enqueues, queue.finish(), the sum of the visit counts, the return
ExecuteCalls(st) ==
    <<"enqueueNDRangeKernel", "enqueueMapBuffer indicesCL", "enqueueMapBuffer dists2CL">>
    \o (IF st THEN <<"enqueueMapBuffer visitCountCL">> ELSE <<>>)
    \o <<"finish">>
    \o (IF st THEN <<"sum visitCounts">> ELSE <<>>)
    \o <<"return">>

\* the arguments after lines 320-350 have run
ArgsAfterKnn(args, st) ==
    LET a9 == [a \in Slots |->
                  CASE a = 1 -> "queryCL"
                    [] a = 2 -> "indicesCL"
                    [] a = 3 -> "dists2CL"
                    [] a = 4 -> "k"
                    [] a = 5 -> "1+epsilon"
                    [] a = 6 -> "optionFlags"
                    [] a = 7 -> "indexStride"
                    [] a = 8 -> "dists2Stride"
                    [] a = 9 -> "cloud.cols"
                    [] OTHER -> args[a]]
    IN  IF st THEN SetArg(a9, 10, "visitCountCL") ELSE a9

\* a whole knn call on an instance.  in: k and what the call's buffers are like
\*   sizesOk     checkSizesKnn accepts the shapes of query, indices, dists2
\*   dimsOk      query.stride() and query.rows() equal the cloud's
\*   queryOk, indicesOk, dists2Ok   the buffer is column-major, direct access
\*   ndebug      the build has the two asserts compiled out
\* The result: the instance's arguments afterwards, the outcome, the calls
\* made, and who wrote the caller's output arrays last.
Knn(inst, in) ==
    LET st == inst.collectStatistics
        fail(e) == [args |-> inst.args, result |-> e, events |-> <<>>, outputs |-> "caller"]
    IN  IF ~CheckSizesKnn(in) THEN fail("SizeError")
        ELSE IF KTooLarge(in.k) THEN fail("CapacityError")
        ELSE IF ~in.dimsOk THEN fail("DimensionMismatchError")
        ELSE IF ~in.queryOk THEN fail("LayoutError")
        ELSE IF ~in.indicesOk /\ ~in.ndebug
        THEN [args |-> SetArg(inst.args, 1, "queryCL"), result |-> "abort",
              events |-> <<"setArg1">>, outputs |-> "caller"]
        ELSE IF ~in.dists2Ok /\ ~in.ndebug
        THEN [args |-> SetArg(SetArg(inst.args, 1, "queryCL"), 2, "indicesCL"), result |-> "abort",
              events |-> ArgCalls12, outputs |-> "caller"]
        ELSE [args |-> ArgsAfterKnn(inst.args, st), result |-> "ok",
              events |-> ArgCalls12 \o ArgCalls3to9
                         \o (IF st THEN <<"setArg10">> ELSE <<>>) \o ExecuteCalls(st),
              outputs |-> "kernel"]

\* the neighbour counts a knn call is made with
Ks == {1, MAX_K, MAX_K + 1}

KnnInputs ==
    [k : Ks, sizesOk : BOOLEAN, dimsOk : BOOLEAN, queryOk : BOOLEAN,
     indicesOk : BOOLEAN, dists2Ok : BOOLEAN, ndebug : BOOLEAN]

(***************************************************************************)
(* SpecSearch: a sequence of index constructions on one ContextManager     *)
(***************************************************************************)
\* largest number of constructor calls in one run
MaxAttempts == 2
\* largest point count of a cloud an index is constructed over
MaxCols == 2

\* the point strides of the clouds (the dimension is 2, no padding)
Strides == {2}

InitSearch ==
    /\ BuildIdle
    /\ SearchIdle
    /\ ThreadsIdle

\* one constructor call: BruteForceSearchOpenCL, KDTreeBalancedPtInLeavesStackOpenCL
\* or KDTreeBalancedPtInNodesStackOpenCL
ConstructIndex ==
    /\ attempts < MaxAttempts
    /\ \E v \in {"bf", "leaves", "nodes"}, n \in 1 .. MaxCols, stride \in Strides,
          st \in BOOLEAN, dt \in DeviceTypes, env \in Platforms,
          fileOk \in BOOLEAN, buildOk \in BOOLEAN, cloudOk \in BOOLEAN :
          \E r \in {Construct(devices, v, n, stride, st, dt, env, fileOk, buildOk, cloudOk)} :
              /\ devices' = r.devices
              /\ buildCount' = buildCount + r.builds
              /\ requested' = requested \cup r.requested
              /\ lastInit' = r.error
              /\ instances' = IF r.error = "none" THEN Append(instances, r.instance) ELSE instances
              /\ created' = CreatedAfter(created, devices, r.devices, dt)
    /\ attempts' = attempts + 1
    /\ UNCHANGED <<buildVars, lastKnn, lastCall, threadVars>>

NextSearch == ConstructIndex

SpecSearch == InitSearch /\ [][NextSearch]_vars

(***************************************************************************)
(* SpecKnn: knn calls on one constructed index                             *)
(***************************************************************************)
\* the state after one successful constructor call in a fresh process
InitKnn ==
    /\ BuildIdle
    /\ ThreadsIdle
    /\ \E v \in {"bf", "leaves", "nodes"}, n \in 1 .. MaxCols, stride \in Strides,
          st \in BOOLEAN, dt \in DeviceTypes, env \in Platforms :
          \E r \in {Construct(Empty, v, n, stride, st, dt, env, TRUE, TRUE, TRUE)} :
              /\ r.error = "none"
              /\ devices = r.devices
              /\ instances = <<r.instance>>
              /\ buildCount = r.builds
              /\ requested = r.requested
              /\ created = CreatedAfter(<<>>, Empty, r.devices, dt)
    /\ lastCall = NoRegistryCall
    /\ attempts = 1
    /\ lastInit = "none"
    /\ lastKnn = NoKnn

\* one knn call on a constructed index
KnnCall ==
    /\ \E i \in DOMAIN instances, in \in KnnInputs :
          \E r \in {Knn(instances[i], in)} :
              /\ instances' = [instances EXCEPT ![i].args = r.args,
                                                ![i].dispatched = @ \/ r.result = "ok"]
              /\ lastKnn' = [inst |-> i, k |-> in.k, sizesOk |-> in.sizesOk, result |-> r.result,
                             events |-> r.events, outputs |-> r.outputs, dimsOk |-> in.dimsOk,
                             layoutOk |-> in.queryOk /\ in.indicesOk /\ in.dists2Ok]
    /\ UNCHANGED <<buildVars, devices, attempts, buildCount, requested, lastInit, created, lastCall,
                   threadVars>>

NextKnn == KnnCall

SpecKnn == InitKnn /\ [][NextKnn]_vars

(***************************************************************************)
(* SpecRegistry: createContext and getSourceCacher called in any order     *)
(***************************************************************************)
InitRegistry ==
    /\ BuildIdle
    /\ SearchIdle
    /\ ThreadsIdle

\* the latest direct call was a createContext(deviceType) that threw
JustFailed(deviceType) ==
    /\ lastCall.op = "createContext"
    /\ lastCall.error # "none"
    /\ lastCall.deviceType = deviceType

\* contextManager.createContext(deviceType)
CreateContextCall ==
    /\ \E dt \in DeviceTypes, env \in Platforms :
          \E r \in {CreateContext(devices, dt, env)} :
              /\ devices' = r.devices
              /\ created' = CreatedAfter(created, devices, r.devices, dt)
              /\ lastCall' = [op |-> "createContext", deviceType |-> dt, env |-> env,
                              existed |-> dt \in DOMAIN devices, error |-> r.error,
                              returned |-> IF r.error = "none" THEN r.returned ELSE 0,
                              afterFailure |-> JustFailed(dt)]
    /\ UNCHANGED <<buildVars, instances, attempts, buildCount, requested, lastInit, lastKnn,
                   threadVars>>

\* contextManager.getSourceCacher(deviceType)
GetSourceCacherCall ==
    /\ \E dt \in DeviceTypes :
          \E r \in {GetSourceCacher(devices, dt)} :
              lastCall' = [op |-> "getSourceCacher", deviceType |-> dt, error |-> r.error,
                           returned |-> IF r.error = "none" THEN r.returned ELSE 0,
                           afterFailure |-> JustFailed(dt)]
    /\ UNCHANGED <<buildVars, devices, instances, attempts, buildCount, requested, lastInit, lastKnn,
                   created, threadVars>>

NextRegistry == CreateContextCall \/ GetSourceCacherCall

SpecRegistry == InitRegistry /\ [][NextRegistry]_vars

(***************************************************************************)
(* SpecThreads: two threads construct a kd-tree index at the same time.    *)
(* One step per statement that takes the mutex or touches a std::map; the  *)
(* thread-local work between them (tree building, file loading) is folded  *)
(* into the step that follows it.                                          *)
(*   pc = "createContext"    at line 168, waiting for the mutex            *)
(*   pc = "ccLocked"         inside createContext, holding the mutex       *)
(*   pc = "getSourceCacher"  at line 180, waiting for the mutex            *)
(*   pc = "gscLocked"        inside getSourceCacher, holding the mutex     *)
(*   pc = "contains"         executing sourceCacher->contains(source)      *)
(*   pc = "loading"          reading the source files (lines 228-257)      *)
(*   pc = "inserting"        executing cachedPrograms[source] = Program    *)
(*   pc = "building"         executing program.build(devices)              *)
(*   pc = "lookup"           executing cachedPrograms[source] at line 286  *)
(*   pc = "done" | "failed"  the constructor returned | threw              *)
(***************************************************************************)
Threads == {1, 2}

\* the statements that read or write cachedPrograms
CacheAccess == {"contains", "inserting", "lookup"}

\* another thread is inside an insertion into the cache thread t works on
InsertingElsewhere(t) ==
    \E u \in Threads \ {t} :
        /\ threads[u].pc = "inserting"
        /\ threads[u].deviceType = threads[t].deviceType

\* another thread is inside any access to the cache thread t works on
AccessingElsewhere(t) ==
    \E u \in Threads \ {t} :
        /\ threads[u].pc \in CacheAccess
        /\ threads[u].deviceType = threads[t].deviceType

CacheOf(t) == devices[threads[t].deviceType].cachedPrograms

InitThreads ==
    /\ BuildIdle
    /\ SearchIdle
    /\ threads = [t \in Threads |-> [pc |-> "idle"]]
    /\ mutex = 0
    /\ race = FALSE

\* a thread enters a kd-tree constructor: OpenCLSearch's initialiser list calls
\* contextManager.createContext(deviceType)
ThreadStart(t) ==
    /\ threads[t].pc = "idle"
    /\ \E v \in {"leaves", "nodes"}, st \in BOOLEAN, dt \in DeviceTypes :
          LET header == MacroHeader(Cardinality(Axes), 2, st, AdditionalDefines(v, MaxCols))
          IN  threads' = [threads EXCEPT ![t] =
                  [pc |-> "createContext", deviceType |-> dt,
                   source |-> CacheKey(header, ClFileName(v)),
                   sources |-> Sources(header, ClFileName(v)),
                   kernelName |-> KernelName(v), hit |-> FALSE, context |-> 0]]
    /\ UNCHANGED <<buildVars, searchVars, mutex, race>>

\* boost::mutex::scoped_lock lock(mutex) in createContext
CreateContextLock(t) ==
    /\ threads[t].pc = "createContext" /\ mutex = 0
    /\ mutex' = t
    /\ threads' = [threads EXCEPT ![t].pc = "ccLocked"]
    /\ UNCHANGED <<buildVars, searchVars, race>>

\* the body of createContext and the release of the lock at its end
CreateContextBody(t) ==
    /\ threads[t].pc = "ccLocked" /\ mutex = t
    /\ \E env \in Platforms :
          \E r \in {CreateContext(devices, threads[t].deviceType, env)} :
              /\ devices' = r.devices
              /\ created' = CreatedAfter(created, devices, r.devices, threads[t].deviceType)
              /\ threads' = [threads EXCEPT
                     ![t].pc = IF r.error = "none" THEN "getSourceCacher" ELSE "failed",
                     ![t].context = IF r.error = "none" THEN r.returned ELSE 0]
    /\ mutex' = 0
    /\ UNCHANGED <<buildVars, instances, attempts, buildCount, requested, lastInit, lastKnn, lastCall,
                   race>>

\* boost::mutex::scoped_lock lock(mutex) in getSourceCacher
GetSourceCacherLock(t) ==
    /\ threads[t].pc = "getSourceCacher" /\ mutex = 0
    /\ mutex' = t
    /\ threads' = [threads EXCEPT ![t].pc = "gscLocked"]
    /\ UNCHANGED <<buildVars, searchVars, race>>

\* the body of getSourceCacher and the release of the lock at its end
GetSourceCacherBody(t) ==
    /\ threads[t].pc = "gscLocked" /\ mutex = t
    /\ threads' = [threads EXCEPT ![t].pc =
           IF GetSourceCacher(devices, threads[t].deviceType).error = "none"
           THEN "contains" ELSE "failed"]
    /\ mutex' = 0
    /\ UNCHANGED <<buildVars, searchVars, race>>

\* sourceCacher->contains(source) returns.  A find that ran while another
\* thread was inserting into the same map is a data race: it may answer
\* either way.
ContainsReturns(t) ==
    /\ threads[t].pc = "contains"
    /\ \E hit \in BOOLEAN :
          /\ InsertingElsewhere(t) \/ hit = Contains(CacheOf(t), threads[t].source)
          /\ threads' = [threads EXCEPT ![t].hit = hit,
                                        ![t].pc = IF hit THEN "lookup" ELSE "loading"]
    /\ race' = (race \/ InsertingElsewhere(t))
    /\ UNCHANGED <<buildVars, searchVars, mutex>>

\* lines 228-257: the sources are read; an unreadable file throws
LoadSources(t) ==
    /\ threads[t].pc = "loading"
    /\ \E fileOk \in BOOLEAN :
          threads' = [threads EXCEPT ![t].pc = IF fileOk THEN "inserting" ELSE "failed"]
    /\ UNCHANGED <<buildVars, searchVars, mutex, race>>

\* cachedPrograms[source] = cl::Program(context, sources) returns.  An
\* insertion that ran while another thread was inside the same map is a data
\* race: the entry may be there afterwards or not.
InsertReturns(t) ==
    /\ threads[t].pc = "inserting"
    /\ \E kept \in BOOLEAN :
          /\ AccessingElsewhere(t) \/ kept
          /\ devices' = IF kept
                        THEN [devices EXCEPT ![threads[t].deviceType].cachedPrograms =
                                 CacheInsert(@, threads[t].source,
                                             [sources |-> threads[t].sources, status |-> "unbuilt"])]
                        ELSE devices
    /\ threads' = [threads EXCEPT ![t].pc = "building"]
    /\ race' = (race \/ AccessingElsewhere(t))
    /\ UNCHANGED <<buildVars, instances, attempts, buildCount, requested, lastInit, lastKnn, created,
                   lastCall, mutex>>

\* program.build(devices) returns or throws; the program is the one the map holds
BuildReturns(t) ==
    /\ threads[t].pc = "building"
    /\ \E buildOk \in BOOLEAN :
          /\ devices' = IF Contains(CacheOf(t), threads[t].source)
                        THEN [devices EXCEPT ![threads[t].deviceType].cachedPrograms[threads[t].source].status =
                                 IF buildOk THEN "built" ELSE "failed"]
                        ELSE devices
          /\ threads' = [threads EXCEPT ![t].pc = IF buildOk THEN "lookup" ELSE "failed"]
    /\ buildCount' = buildCount + 1
    /\ UNCHANGED <<buildVars, instances, attempts, requested, lastInit, lastKnn, created, lastCall,
                   mutex, race>>

\* cl::Program& program = cachedPrograms[source]; knnKernel = cl::Kernel(program, kernelName):
\* the kernel is created only from a built program that defines it
LookupReturns(t) ==
    /\ threads[t].pc = "lookup"
    /\ threads' = [threads EXCEPT ![t].pc =
           IF /\ Contains(CacheOf(t), threads[t].source)
              /\ CacheOf(t)[threads[t].source].status = "built"
              /\ threads[t].kernelName \in KernelsOfFile(CacheOf(t)[threads[t].source].sources[4])
           THEN "done" ELSE "failed"]
    /\ race' = (race \/ InsertingElsewhere(t))
    /\ UNCHANGED <<buildVars, searchVars, mutex>>

NextThreads ==
    \E t \in Threads :
        \/ ThreadStart(t)
        \/ CreateContextLock(t)
        \/ CreateContextBody(t)
        \/ GetSourceCacherLock(t)
        \/ GetSourceCacherBody(t)
        \/ ContainsReturns(t)
        \/ LoadSources(t)
        \/ InsertReturns(t)
        \/ BuildReturns(t)
        \/ LookupReturns(t)

SpecThreads == InitThreads /\ [][NextThreads]_vars

(***************************************************************************)
(* What the finished node array looks like                                 *)
(***************************************************************************)
\* number of points of the cloud
N == Cardinality(DOMAIN cloud)

RECURSIVE TreeHeight(_, _)
\* the longest path, in edges, from slot pos down to a slot that is no split
\* node (a split node has dim >= 0; a lone root leaf has height 0)
TreeHeight(ns, pos) ==
    IF pos \notin DOMAIN ns \/ ns[pos].dim < 0 THEN 0
    ELSE 1 + Max2(TreeHeight(ns, childLeft(pos)), TreeHeight(ns, childRight(pos)))

RECURSIVE IsBelow(_, _)
\* slot q lies in the subtree under slot p (q # p)
IsBelow(q, p) ==
    IF q <= p THEN FALSE
    ELSE (q - 1) \div 2 = p \/ IsBelow((q - 1) \div 2, p)

\* the slots buildNodes stored to that have no stored slot under them
TerminalSlots == {p \in written : childLeft(p) \notin written /\ childRight(p) \notin written}

(***************************************************************************)
(* Claims on the tree construction                                         *)
(***************************************************************************)
\* C5 (as stated): for both variants getTreeDepth(n) is the true maximum
\* root-to-leaf depth of the built tree, a lone root leaf having depth 0.
C5_DepthIsHeightBothVariants ==
    phase = "built" => getTreeDepth(variant, N) = TreeHeight(nodes, 0)

\* C5 (amended): points-in-leaves getTreeDepth(n) is the maximum root-to-leaf
\* depth of the built tree; points-in-nodes getTreeDepth(n) is that depth plus
\* one, the number of levels of the tree.
C5_DepthLeavesExactNodesLevels ==
    phase = "built" =>
        /\ variant = "leaves" => LeavesGetTreeDepth(N) = TreeHeight(nodes, 0)
        /\ variant = "nodes" => NodesGetTreeDepth(N) = TreeHeight(nodes, 0) + 1

C5_Witness ==
    /\ phase = "built" /\ variant = "nodes" /\ N = 4
    /\ TreeHeight(nodes, 0) = 2 /\ NodesGetTreeDepth(N) = 3

\* C6: every position a buildNodes call stores to (split nodes, leaves, the
\* absent sentinel) is below getTreeSize(n), the size of the node array.
C6_WritesInsideArray ==
    /\ Cardinality(DOMAIN nodes) = getTreeSize(variant, N)
    /\ \A p \in written : p >= 0 /\ p < getTreeSize(variant, N)

C6_Witness ==
    /\ phase = "built" /\ N = 5
    /\ getTreeSize(variant, N) - 1 \in written

\* C7: points-in-leaves, after construction: the terminal slots carry tags
\* -2-i that decode to each of 0..n-1 exactly once, the other stored slots
\* carry a split axis, and no stored slot carries the empty tag -1.
C7_LeafTagsArePermutation ==
    (phase = "built" /\ variant = "leaves") =>
        /\ \A p \in TerminalSlots : nodes[p].dim <= -2
        /\ \A p \in written \ TerminalSlots : nodes[p].dim \in Axes
        /\ \A p \in DOMAIN nodes : nodes[p].dim = -1 <=> p \notin written
        /\ Cardinality(TerminalSlots) = N
        /\ {-2 - nodes[p].dim : p \in TerminalSlots} = 0 .. N - 1

C7_Witness ==
    /\ phase = "built" /\ variant = "leaves" /\ N = 4
    /\ \E p \in TerminalSlots : nodes[p].dim = -2
    /\ \E p \in TerminalSlots : nodes[p].dim = -5

\* C8: points-in-nodes, after construction: the slots tagged other than -2
\* (split nodes and (-1, idx) leaves) hold each of 0..n-1 exactly once, and
\* under a slot tagged -2 every slot is tagged -2 as well.
C8_NodesHoldEachPointOnce ==
    (phase = "built" /\ variant = "nodes") =>
        LET Holders == {p \in DOMAIN nodes : nodes[p].dim # -2}
        IN  /\ Cardinality(Holders) = N
            /\ {nodes[p].val : p \in Holders} = 0 .. N - 1
            /\ \A p \in Holders : nodes[p].dim = -1 \/ nodes[p].dim \in Axes
            /\ \A p \in DOMAIN nodes : nodes[p].dim = -2 =>
                   \A q \in DOMAIN nodes : IsBelow(q, p) => nodes[q].dim = -2

C8_Witness ==
    /\ phase = "built" /\ variant = "nodes" /\ N = 4
    /\ \E p \in written : nodes[p].dim = -2
    /\ \E p \in DOMAIN nodes : p \notin written /\ IsBelow(p, 2)

\* the point indices in positions lo .. hi-1 of the BuildPoints vector
PointsIn(lo, hi) == {buildPoints[i] : i \in lo .. hi - 1}

\* the terminal slots at or under slot p
LeavesUnder(p) == {q \in TerminalSlots : q = p \/ IsBelow(q, p)}

\* C17: points-in-leaves.  Right after every buildNodes call on count >= 2
\* points: leftCount = ceil(count/2) and rightCount = floor(count/2), the two
\* pending calls are on the first leftCount and the last rightCount positions
\* of the range, every point handed to the left has coordinate[cutDim] <=
\* cutVal and every point handed to the right has coordinate[cutDim] >=
\* cutVal.  In the finished tree, under every split node the left subtree
\* holds ceil(count/2) of its count leaves, all with coordinate <= the stored
\* cutVal along the stored cutDim, and the right subtree the others, all >=.
C17_LeavesSplit ==
    /\ (variant = "leaves" /\ phase = "building" /\ call.pos # -1 /\ call.count >= 2) =>
          /\ 2 * call.leftCount \in {call.count, call.count + 1}
          /\ call.rightCount = call.count - call.leftCount
          /\ Len(stack) >= 2
          /\ stack[1].first = call.first /\ stack[1].last = call.first + call.leftCount
          /\ stack[1].pos = childLeft(call.pos)
          /\ stack[2].first = call.first + call.leftCount /\ stack[2].last = call.last
          /\ stack[2].pos = childRight(call.pos)
          /\ nodes[call.pos] = [dim |-> call.cutDim, val |-> call.cutVal]
          /\ \A i \in PointsIn(stack[1].first, stack[1].last) : cloud[i][call.cutDim] <= call.cutVal
          /\ \A i \in PointsIn(stack[2].first, stack[2].last) : cloud[i][call.cutDim] >= call.cutVal
    /\ (variant = "leaves" /\ phase = "built") =>
          \A p \in written \ TerminalSlots :
              LET left == LeavesUnder(childLeft(p))
                  right == LeavesUnder(childRight(p))
                  count == Cardinality(left) + Cardinality(right)
              IN  /\ 2 * Cardinality(left) \in {count, count + 1}
                  /\ \A q \in left : cloud[-2 - nodes[q].dim][nodes[p].dim] <= nodes[p].val
                  /\ \A q \in right : cloud[-2 - nodes[q].dim][nodes[p].dim] >= nodes[p].val

C17_Witness ==
    /\ variant = "leaves" /\ phase = "building" /\ call.pos = 0 /\ call.count = 5
    /\ call.leftCount = 3 /\ call.rightCount = 2 /\ call.cutDim = 1 /\ call.cutVal = 3
    /\ PointsIn(0, 3) = {0, 1, 2} /\ buildPoints[0] # 0

\* points-in-nodes: the points held at or under slot p
HeldUnder(p) ==
    {nodes[q].val : q \in {q \in DOMAIN nodes : nodes[q].dim # -2 /\ (q = p \/ IsBelow(q, p))}}

\* C18: points-in-nodes.  Right after every buildNodes call on count >= 2
\* points: one point (the one nth_element put at first + leftCount) is stored
\* at pos with the cut axis, leftCount = ceil((count-1)/2), rightCount is the
\* rest, and along cutDim every point before the kept one is <= it and every
\* point after it is >= it.  With count > 2 the two pending calls are on the
\* points before and the points after the kept one; with count = 2 the other
\* point is stored as (-1, index) at childLeft(pos), (-2, 0) at
\* childRight(pos), and no call is pending on either child.  In the finished
\* tree, under every split node the left subtree holds ceil((count-1)/2) of
\* the count points of the node, all <= the kept point along the stored
\* axis, and the right subtree the others, all >=.
C18_NodesSplit ==
    /\ (variant = "nodes" /\ phase = "building" /\ call.pos # -1 /\ call.count >= 2) =>
          LET nth == call.first + call.leftCount
              kept == buildPoints[nth]
          IN  /\ 2 * call.leftCount \in {call.count - 1, call.count}
              /\ call.rightCount = call.count - 1 - call.leftCount
              /\ nodes[call.pos] = [dim |-> call.cutDim, val |-> kept]
              /\ call.cutVal = cloud[kept][call.cutDim]
              /\ kept \notin PointsIn(call.first, nth) \cup PointsIn(nth + 1, call.last)
              /\ \A i \in PointsIn(call.first, nth) : cloud[i][call.cutDim] <= call.cutVal
              /\ \A i \in PointsIn(nth + 1, call.last) : cloud[i][call.cutDim] >= call.cutVal
              /\ call.count > 2 =>
                     /\ Len(stack) >= 2
                     /\ stack[1].first = call.first /\ stack[1].last = nth
                     /\ stack[1].pos = childLeft(call.pos)
                     /\ stack[2].first = nth + 1 /\ stack[2].last = call.last
                     /\ stack[2].pos = childRight(call.pos)
              /\ call.count = 2 =>
                     /\ nodes[childLeft(call.pos)] = [dim |-> -1, val |-> buildPoints[call.first]]
                     /\ buildPoints[call.first] # kept
                     /\ nodes[childRight(call.pos)] = [dim |-> -2, val |-> 0]
                     /\ \A i \in DOMAIN stack :
                            stack[i].pos \notin {childLeft(call.pos), childRight(call.pos)}
    /\ (variant = "nodes" /\ phase = "built") =>
          \A p \in DOMAIN nodes : nodes[p].dim \in Axes =>
              LET left == HeldUnder(childLeft(p))
                  right == HeldUnder(childRight(p))
                  count == 1 + Cardinality(left) + Cardinality(right)
                  cut == cloud[nodes[p].val][nodes[p].dim]
              IN  /\ 2 * Cardinality(left) \in {count - 1, count}
                  /\ nodes[p].val \notin left \cup right
                  /\ \A i \in left : cloud[i][nodes[p].dim] <= cut
                  /\ \A i \in right : cloud[i][nodes[p].dim] >= cut

C18_Witness ==
    /\ variant = "nodes" /\ phase = "building" /\ call.pos = 1 /\ call.count = 2
    /\ nodes[0].dim = 1 /\ nodes[1].dim = 1
    /\ nodes[3].dim = -1 /\ nodes[4].dim = -2
    /\ cloud[nodes[3].val][1] < cloud[nodes[1].val][1]
    /\ cloud[nodes[1].val][1] < cloud[nodes[0].val][1]

\* every point in positions first .. last-1 lies in the box (minValues, maxValues)
RangeInBox(first, last, minValues, maxValues) ==
    \A i \in PointsIn(first, last) : \A d \in Axes :
        minValues[d] <= cloud[i][d] /\ cloud[i][d] <= maxValues[d]

\* C19: both variants, the root box being the bounding box of the cloud: every
\* buildNodes call, pending or just made, has all the points of its range
\* inside the box it is passed.
C19_RangeInsideBox ==
    phase = "building" =>
        /\ \A i \in DOMAIN stack :
              RangeInBox(stack[i].first, stack[i].last, stack[i].minValues, stack[i].maxValues)
        /\ call.pos # -1 => RangeInBox(call.first, call.last, call.minValues, call.maxValues)

C19_Witness ==
    /\ phase = "building" /\ variant = "nodes" /\ Len(stack) >= 2
    /\ stack[1].last - stack[1].first >= 2 /\ stack[2].last - stack[2].first >= 2
    /\ stack[1].maxValues # maxBound(cloud) /\ stack[1].minValues = minBound(cloud)
    /\ stack[2].minValues # minBound(cloud) /\ stack[2].maxValues = maxBound(cloud)
    /\ stack[1].pos = 1 /\ stack[2].pos = 2

\* C20: for both variants and every cloud, the MAX_STACK_DEPTH handed to the
\* kernel source, getTreeDepth(nodes.size()) + 1, is at least one more than
\* the longest root-to-leaf path of the built tree.
C20_StackDepthCoversTree ==
    phase = "built" => maxStackDepth >= TreeHeight(nodes, 0) + 1

C20_Witness ==
    /\ phase = "built" /\ variant = "leaves" /\ N = 5
    /\ TreeHeight(nodes, 0) = 3 /\ maxStackDepth = 5

\* the node array of a one-point cloud: one slot, stored to once, holding the
\* leaf of point 0 (tag -2-0 in the points-in-leaves variant, (-1, 0) in the
\* points-in-nodes variant), and no split node
OnePointTree ==
    /\ Cardinality(DOMAIN nodes) = 1
    /\ Cardinality(DOMAIN nodes) = getTreeSize(variant, 1)
    /\ written = {0}
    /\ nodes[0] = (IF variant = "leaves" THEN [dim |-> -2, val |-> 0] ELSE [dim |-> -1, val |-> 0])
    /\ TreeHeight(nodes, 0) = 0

\* C15 (as stated): for each variant a one-point cloud yields an array of
\* getTreeSize(1) slots whose only stored slot is the leaf of point 0 at the
\* root, and getTreeDepth(1) is 0.
C15_OnePointTreeDepthZero ==
    (phase = "built" /\ N = 1) =>
        /\ OnePointTree
        /\ getTreeDepth(variant, 1) = 0

\* C15 (amended): as above, with getTreeDepth(1) = 0 for the points-in-leaves
\* variant and getTreeDepth(1) = 1 for the points-in-nodes variant.
C15_OnePointTreeDepthPerVariant ==
    (phase = "built" /\ N = 1) =>
        /\ OnePointTree
        /\ variant = "leaves" => LeavesGetTreeDepth(1) = 0
        /\ variant = "nodes" => NodesGetTreeDepth(1) = 1

C15_Witness ==
    /\ phase = "built" /\ N = 1 /\ variant = "nodes"
    /\ written = {0} /\ nodes[0].dim = -1 /\ nodes[0].val = 0

\* C14: argMax returns the lowest index among the components that attain
\* the maximum of the vector, and 0 when no component is positive.
C14_ArgMaxLowestIndexOfMaximum ==
    maxIdx # -1 =>
        LET m == SetMax({extent[i] : i \in DOMAIN extent})
        IN  maxIdx = IF m > 0 THEN SetMin({i \in DOMAIN extent : extent[i] = m}) ELSE 0

C14_Witness ==
    /\ DOMAIN extent = 0 .. 2
    /\ extent[0] = 1 /\ extent[1] = 2 /\ extent[2] = 2
    /\ maxIdx = 1

(***************************************************************************)
(* Claims on the program cache                                             *)
(***************************************************************************)
\* C1 (as stated): a failed compilation is never cached: no program cache of
\* any context holds an entry whose build failed.
C1_FailedBuildNeverCached ==
    \A dt \in DOMAIN devices : \A k \in DOMAIN devices[dt].cachedPrograms :
        devices[dt].cachedPrograms[k].status # "failed"

\* C2 (as stated): the cache is keyed by the full concatenated source text: the
\* program an instance was handed was compiled from that instance's own
\* concatenation (header, structure.cl, heap.cl, its kernel file).
C2_ProgramIsOfOwnSources ==
    \A i \in DOMAIN instances : instances[i].program.sources = instances[i].sources

\* C9 (as stated): on each device class the number of compilations equals the
\* number of distinct source texts requested, and an index constructed with
\* the source text of an earlier one compiles nothing and uses the same program.
C9_OneCompilationPerSourceText ==
    /\ buildCount = Cardinality(requested)
    /\ \A i, j \in DOMAIN instances :
          (i < j /\ instances[i].deviceType = instances[j].deviceType
                 /\ instances[i].sources = instances[j].sources) =>
              /\ ~instances[j].compiled
              /\ instances[j].program = instances[i].program

(***************************************************************************)
(* Claims on knn                                                           *)
(***************************************************************************)
\* C3 (as stated): whenever a kd-tree index has dispatched its kernel, the
\* node buffer is bound at slot 10 without statistics and at slot 11 with
\* them, and the visit-count buffer is at slot 10 exactly with statistics.
C3_TreeBufferSlot ==
    \A i \in DOMAIN instances :
        LET inst == instances[i]
        IN  (inst.variant \in {"leaves", "nodes"} /\ inst.dispatched) =>
                IF inst.collectStatistics
                THEN inst.args[11] = "nodesCL" /\ inst.args[10] = "visitCountCL"
                ELSE inst.args[10] = "nodesCL"

\* C10: a knn call with k > MAX_K binds no kernel argument, makes no OpenCL
\* call and leaves the output arrays to the caller; it fails with
\* CapacityError (with SizeError when checkSizesKnn rejects the shapes first).
C10_TooLargeKFailsEarly ==
    [][(lastKnn' # lastKnn /\ lastKnn'.k > MAX_K) =>
          /\ instances' = instances
          /\ lastKnn'.events = <<>>
          /\ lastKnn'.outputs = "caller"
          /\ lastKnn'.result = IF lastKnn'.sizesOk THEN "CapacityError" ELSE "SizeError"]_vars

C10_Witness ==
    /\ lastKnn.result = "CapacityError" /\ lastKnn.k = MAX_K + 1
    /\ instances[lastKnn.inst].dispatched
    /\ instances[lastKnn.inst].args[4] = "k"

\* C11 (as stated): a knn call that gets past the shape, capacity and
\* dimensionality checks with a query, indices or dists2 buffer that is not
\* column-major with direct access fails with LayoutError, having bound no
\* argument and dispatched nothing.
C11_WrongLayoutIsLayoutError ==
    (/\ lastKnn.result # "none"
     /\ lastKnn.sizesOk /\ ~KTooLarge(lastKnn.k) /\ lastKnn.dimsOk
     /\ ~lastKnn.layoutOk) =>
        /\ lastKnn.result = "LayoutError"
        /\ lastKnn.events = <<>>

\* the positions of a call in the log of a knn call
At(events, e) == {i \in DOMAIN events : events[i] = e}

\* the calls that bind a kernel argument
SetArgCalls ==
    {"setArg1", "setArg2", "setArg3", "setArg4", "setArg5", "setArg6", "setArg7", "setArg8",
     "setArg9", "setArg10"}

\* the enqueues of the buffer mappings
MapCalls ==
    {"enqueueMapBuffer indicesCL", "enqueueMapBuffer dists2CL", "enqueueMapBuffer visitCountCL"}

\* C21: in every successful knn call the kernel is enqueued once, after every
\* argument binding; both output buffers (and the visit counts, with
\* statistics) are mapped after it; queue.finish() is called once, after every
\* enqueue; the visit counts are summed only with statistics and only after
\* finish; and the return is the last event, after finish.
C21_KnnFinishesBeforeReturning ==
    lastKnn.result = "ok" =>
        LET ev == lastKnn.events
            st == instances[lastKnn.inst].collectStatistics
            kernelAt == At(ev, "enqueueNDRangeKernel")
            finishAt == At(ev, "finish")
            sumAt == At(ev, "sum visitCounts")
        IN  /\ Cardinality(kernelAt) = 1
            /\ Cardinality(finishAt) = 1
            /\ At(ev, "return") = {Len(ev)}
            /\ \A e \in SetArgCalls \ (IF st THEN {} ELSE {"setArg10"}) : At(ev, e) # {}
            /\ \A i \in DOMAIN ev : \A k \in kernelAt : \A f \in finishAt :
                   /\ ev[i] \in SetArgCalls => i < k
                   /\ ev[i] \in MapCalls => k < i /\ i < f
                   /\ ev[i] \in {"sum visitCounts", "return"} => f < i
            /\ At(ev, "enqueueMapBuffer indicesCL") # {}
            /\ At(ev, "enqueueMapBuffer dists2CL") # {}
            /\ (At(ev, "enqueueMapBuffer visitCountCL") # {}) = st
            /\ (sumAt # {}) = st
            /\ lastKnn.outputs = "kernel"

C21_Witness ==
    /\ lastKnn.result = "ok"
    /\ instances[lastKnn.inst].collectStatistics
    /\ instances[lastKnn.inst].variant = "nodes"
    /\ Len(lastKnn.events) = 17
    /\ lastKnn.events[15] = "finish" /\ lastKnn.events[16] = "sum visitCounts"

(***************************************************************************)
(* Claims on the registry                                                  *)
(***************************************************************************)
\* the elements of a sequence
Range(q) == {q[i] : i \in DOMAIN q}

\* C12: getSourceCacher(deviceType) throws (StateError) exactly when no
\* SourceCacher has been created for that same device type before, whatever
\* other types have one; a call never changes the registry map; when it
\* succeeds it returns the SourceCacher the map holds for the type.
C12_GetSourceCacherNeedsOwnContext ==
    [][(lastCall' # lastCall /\ lastCall'.op = "getSourceCacher") =>
          /\ devices' = devices
          /\ created' = created
          /\ lastCall'.error =
                 (IF lastCall'.deviceType \in Range(created) THEN "none" ELSE "StateError")
          /\ lastCall'.error = "none" =>
                 lastCall'.returned = devices[lastCall'.deviceType].ptr]_vars

C12_Witness ==
    /\ lastCall.op = "getSourceCacher" /\ lastCall.error = "StateError"
    /\ lastCall.deviceType = "CPU" /\ Range(created) = {"GPU"}

\* C16: a createContext call for a device type without an entry, on a
\* platform where the context of that type cannot be made but a device
\* exists, throws nothing: it makes a CL_DEVICE_TYPE_ALL context, stores it
\* under the requested type and returns it.  A createContext call throws
\* only when there is no platform or the fall-back yields no device.
C16_FallbackToAnyDevice ==
    lastCall.op = "createContext" =>
        /\ (/\ ~lastCall.existed
            /\ lastCall.env.platforms /\ ~lastCall.env.typed /\ lastCall.env.any) =>
               /\ lastCall.error = "none"
               /\ lastCall.deviceType \in DOMAIN devices
               /\ devices[lastCall.deviceType].context = "ALL"
               /\ lastCall.returned = devices[lastCall.deviceType].ptr
        /\ lastCall.error # "none" =>
               /\ ~lastCall.existed
               /\ ~lastCall.env.platforms \/ (~lastCall.env.typed /\ ~lastCall.env.any)

C16_Witness ==
    /\ lastCall.op = "createContext" /\ lastCall.deviceType = "GPU" /\ ~lastCall.existed
    /\ lastCall.env.platforms /\ ~lastCall.env.typed /\ lastCall.env.any
    /\ "GPU" \in DOMAIN devices /\ devices["GPU"].context = "ALL"

\* C22: a createContext call that throws leaves the registry map as it was,
\* with no entry for the device type.  The call that follows it for the same
\* type finds no entry: getSourceCacher throws (StateError) and createContext
\* constructs a SourceCacher again, succeeding or throwing by what the
\* platform answers at that call, and on success stores and returns a new one.
C22_FailedCreationLeavesNoEntry ==
    [][(lastCall' # lastCall) =>
          /\ (lastCall'.op = "createContext" /\ lastCall'.error # "none") =>
                 /\ devices' = devices
                 /\ created' = created
                 /\ lastCall'.deviceType \notin DOMAIN devices'
          /\ (lastCall'.op = "getSourceCacher" /\ lastCall'.afterFailure) =>
                 /\ lastCall'.error = "StateError"
                 /\ devices' = devices
          /\ (lastCall'.op = "createContext" /\ lastCall'.afterFailure) =>
                 /\ ~lastCall'.existed
                 /\ (lastCall'.error = "none") =
                        (lastCall'.env.platforms /\ (lastCall'.env.typed \/ lastCall'.env.any))
                 /\ lastCall'.error = "none" =>
                        /\ created' = Append(created, lastCall'.deviceType)
                        /\ lastCall'.returned = devices'[lastCall'.deviceType].ptr
                        /\ \A d \in DOMAIN devices : devices[d].ptr # lastCall'.returned
                        /\ devices'[lastCall'.deviceType].context \in {lastCall'.deviceType, "ALL"}]_vars

C22_Witness ==
    /\ lastCall.op = "createContext" /\ lastCall.afterFailure /\ lastCall.error = "none"
    /\ lastCall.deviceType = "GPU" /\ created = <<"CPU", "GPU">>
    /\ lastCall.returned = 2 /\ devices["GPU"].ptr = 2

(***************************************************************************)
(* Claims on concurrent construction                                       *)
(***************************************************************************)
\* C4 (as stated): every read of and insertion into a program cache happens
\* under the registry's mutex, so no thread is inside an access to a cache
\* while another thread is inside an insertion into the same cache.
C4_CacheAccessUnderLock ==
    \A t \in Threads : \A u \in Threads \ {t} :
        ~(/\ threads[t].pc = "inserting"
          /\ threads[u].pc \in CacheAccess
          /\ threads[u].deviceType = threads[t].deviceType)

\* the threads whose createContext call has returned a context
HoldingContext == {t \in Threads : threads[t].pc \notin {"idle", "createContext", "ccLocked"}
                                   /\ threads[t].context # 0}

\* C13: under every interleaving of two constructing threads the registry
\* holds one SourceCacher per device type for which one was made: one
\* creation per type, distinct types own distinct contexts, and every thread
\* whose createContext returned holds the context the map holds for its type
\* (so no entry was replaced after being handed out).
C13_OneContextPerDeviceType ==
    /\ \A dt \in DeviceTypes :
          Cardinality({i \in DOMAIN created : created[i] = dt}) =
              (IF dt \in DOMAIN devices THEN 1 ELSE 0)
    /\ \A d1, d2 \in DOMAIN devices : devices[d1].ptr = devices[d2].ptr => d1 = d2
    /\ \A t \in HoldingContext :
          /\ threads[t].deviceType \in DOMAIN devices
          /\ threads[t].context = devices[threads[t].deviceType].ptr

C13_Witness ==
    /\ HoldingContext = Threads
    /\ threads[1].deviceType = threads[2].deviceType
    /\ threads[1].context = threads[2].context
    /\ Len(created) = 1

====
